---- MODULE Spec2Model ----
(***************************************************************************)
(* Model of portablemc's bulk download engine (portablemc/download.py):    *)
(* DownloadList (add / download), the worker threads (_download_thread)    *)
(* and DownloadTask.execute, with the HTTP servers and the file system as  *)
(* a nondeterministic environment.                                         *)
(***************************************************************************)
EXTENDS Integers, Sequences, FiniteSets, TLC

(* ------------------------------ bounds --------------------------------- *)

\* Largest number of entries a caller adds to the list.
MaxEntries == 2
\* Largest threads_count a caller passes to DownloadList.download directly.
MaxThreads == 2

(* ------------------------ program constants ---------------------------- *)

\* `size: Optional[int] = None`: the undeclared size.
NoSize == -1
\* `max_try_count = 3`
max_try_count == 3
\* `e.entry.size or 1048576`
DefaultSortSize == 1048576

\* `sha1: Optional[str] = None`, `name: Optional[str] = None`,
\* `last_error: Optional[str] = None`
NoSha1 == "None"
NoName == "None"
NoError == "None"

\* DownloadError.CONNECTION / NOT_FOUND / INVALID_SIZE / INVALID_SHA1
CONNECTION == "connection"
NOT_FOUND == "not_found"
INVALID_SIZE == "invalid_size"
INVALID_SHA1 == "invalid_sha1"

ErrorCodes == {CONNECTION, NOT_FOUND, INVALID_SIZE, INVALID_SHA1}

(* --------------------------- environment ------------------------------- *)

\* URLs callers give, and the Location values servers answer a 301/302 with.
InputUrls == {"http://h1/a", "https://h2/b", "ftp://h3/c"}
Locations == {"http://h1/r", "/r"}

\* urllib.parse.urlparse, restricted to the URLs above (scheme and netloc).
urlparse(url) ==
    CASE url = "http://h1/a"  -> [scheme |-> "http",  netloc |-> "h1"]
      [] url = "http://h1/r"  -> [scheme |-> "http",  netloc |-> "h1"]
      [] url = "https://h2/b" -> [scheme |-> "https", netloc |-> "h2"]
      [] url = "ftp://h3/c"   -> [scheme |-> "ftp",   netloc |-> "h3"]
      [] OTHER                -> [scheme |-> "",      netloc |-> ""]

\* Response bodies a server may send, with their length and SHA-1 digest.
Bodies == {"A", "B", "C"}

BodyLen(b) == CASE b = "A" -> 2 [] b = "B" -> 2 [] b = "C" -> 1 [] OTHER -> 0

hexdigest(b) == CASE b = "A" -> "ha" [] b = "B" -> "hb" [] b = "C" -> "hc"
                  [] OTHER -> "h0"

\* Destination paths, and what a path holds: nothing, a file left by an
\* earlier installation, a file just opened with "wb", or a written body.
Dsts == {"d1", "d2"}
Absent == "absent"
OldFile == "old"
Truncated == "trunc"
FileStates == {Absent, OldFile, Truncated} \cup Bodies

\* Path.is_file and Path.stat().st_size
is_file(files, dst) == files[dst] # Absent

st_size(files, dst) ==
    CASE files[dst] = OldFile -> 3
      [] files[dst] \in Bodies -> BodyLen(files[dst])
      [] OTHER -> 0

\* st_mode of a file left by an earlier installation (0o640) and of a file
\* that open("wb") creates (0o644, umask 0o022).
OldFileMode == 416
NewFileMode == 420

\* Bit k of a mode.
Bit(m, k) == (m \div (2 ^ k)) % 2

\* `prev_mode | ((prev_mode & 0o444) >> 2)`
Chmod(prev_mode) ==
    prev_mode
    + (IF Bit(prev_mode, 2) = 1 /\ Bit(prev_mode, 0) = 0 THEN 1 ELSE 0)
    + (IF Bit(prev_mode, 5) = 1 /\ Bit(prev_mode, 3) = 0 THEN 8 ELSE 0)
    + (IF Bit(prev_mode, 8) = 1 /\ Bit(prev_mode, 6) = 0 THEN 64 ELSE 0)

\* Whether the server closes the connection after a 301/302 (the response
\* then owns the socket and the connection object opens a new one), for a
\* server that always does and for any server.
ClosingServer == {TRUE}
AnyServer == BOOLEAN

\* time.monotonic() - start_time, in seconds, on a clock too coarse to see
\* an attempt last, and on a clock that may see it last a second.
CoarseClock == {0}
ElapsedTimes == {0, 1}

\* The speed after a body of `size` bytes read in `elapsed` seconds, in
\* units of 1/200 byte per second, rounded down:
\* `speed_smoothing * current_speed + (1 - speed_smoothing) * speed`.
SpeedAfter(speed_now, size, elapsed) ==
    IF elapsed > 0
    THEN size \div elapsed + (199 * speed_now) \div 200
    ELSE speed_now

\* os.cpu_count(): None (written 0) or a positive count.
CpuCounts == {0, 1, 2}

(* ----------------------------- data model ------------------------------ *)

\* DownloadEntry.__init__
DownloadEntry(url, dst, size, sha1, name, executable) ==
    [url |-> url, dst |-> dst, size |-> size, sha1 |-> sha1,
     name |-> IF name = NoName THEN url ELSE name,
     executable |-> executable]

\* The entries callers add.
InputEntries ==
    { DownloadEntry("http://h1/a",  "d1", NoSize, NoSha1, NoName, FALSE),
      DownloadEntry("https://h2/b", "d2", 2,      "ha",   "n2",   TRUE),
      DownloadEntry("http://h1/a",  "d2", NoSize, "ha",   "n3",   FALSE),
      DownloadEntry("https://h2/b", "d1", 1,      NoSha1, "n4",   FALSE),
      DownloadEntry("ftp://h3/c",   "d1", NoSize, NoSha1, NoName, FALSE) }

\* A from_entry that takes any scheme.
SchemeSupportedAny(url) == TRUE

\* _DownloadEntry.from_entry: the ValueError case.
SchemeSupported(url) == urlparse(url).scheme \in {"http", "https"}

\* _DownloadEntry.from_entry: the prepared entry.
from_entry(entry) ==
    [https |-> urlparse(entry.url).scheme = "https",
     host  |-> urlparse(entry.url).netloc,
     entry |-> entry]

\* The sentinel put on the work queue (None).
None == [none |-> TRUE]
IsNone(item) == "none" \in DOMAIN item

\* A Progress that carries the speed the worker started with.
DownloadResultProgressStale(thread_id, entry, size, speed_now) ==
    [type |-> "progress", thread_id |-> thread_id, entry |-> entry,
     size |-> size, speed |-> 0]

\* DownloadResultProgress / DownloadResultError
DownloadResultProgress(thread_id, entry, size, speed_now) ==
    [type |-> "progress", thread_id |-> thread_id, entry |-> entry,
     size |-> size, speed |-> speed_now]

DownloadResultError(thread_id, entry, code) ==
    [type |-> "error", thread_id |-> thread_id, entry |-> entry, code |-> code]

\* DownloadStartEvent / DownloadProgressEvent / DownloadCompleteEvent
DownloadStartEvent(threads_count, entries_count, size) ==
    [type |-> "start", threads_count |-> threads_count,
     entries_count |-> entries_count, size |-> size]

DownloadProgressEvent(thread_id, count, entry, size, speed_now) ==
    [type |-> "progress", thread_id |-> thread_id, count |-> count,
     entry |-> entry, size |-> size, speed |-> speed_now]

DownloadCompleteEvent == [type |-> "complete"]

(* --------------------------- pure functions ---------------------------- *)

Min(a, b) == IF a < b THEN a ELSE b

\* One thread per entry, whatever the host.
ThreadsCountUncapped(entries_count, cpu) == entries_count

\* `min(entries_count, (os.cpu_count() or 1) * 4)`
ThreadsCount(entries_count, cpu) ==
    Min(entries_count, (IF cpu = 0 THEN 1 ELSE cpu) * 4)

\* `key=lambda e: e.entry.size or 1048576`
SortKey(e) ==
    IF e.entry.size = NoSize \/ e.entry.size = 0 THEN DefaultSortSize
    ELSE e.entry.size

\* list.sort(key=..., reverse=True): stable, larger keys first.
InsertDesc(x, s) ==
    LET idx == Cardinality({i \in 1..Len(s) : SortKey(s[i]) > SortKey(x)})
    IN  SubSeq(s, 1, idx) \o <<x>> \o SubSeq(s, idx + 1, Len(s))

RECURSIVE SortEntries(_)
SortEntries(s) ==
    IF s = <<>> THEN <<>> ELSE InsertDesc(Head(s), SortEntries(Tail(s)))

(* ------------------------------- state --------------------------------- *)

VARIABLES
    dl,             \* the DownloadList: entries, count, size
    fs,             \* the file system: what each dst holds
    epc,            \* where the caller's thread stands
    mode,           \* "task" (DownloadTask.execute) or "direct" (download called)
    threads_count,  \* download's threads_count
    entries_count,  \* download's entries_count
    result_count,   \* download's result_count
    loop_idx,       \* index of the running for loop (entries, then sentinels)
    entries_queue,  \* the work queue
    result_queue,   \* the result queue
    th,             \* the worker threads, by thread id
    yielded,        \* the (result_count, result) pairs download has yielded
    errors,         \* execute's errors list
    events,         \* the events the watcher has handled
    outcome,        \* how the caller's call ended
    input,          \* the entries of the list when download started
    caller,         \* the caller's last call and what it got back
    conn_cache,     \* each worker's conn_cache: the keys that hold a connection
    unread,         \* each worker's connections with a response left unread
    speed,          \* each worker's speed
    st_mode,        \* the mode bits of the file at each dst (0: no file)
    parents         \* the dsts whose parent directory exists

vars == <<dl, fs, epc, mode, threads_count, entries_count, result_count,
          loop_idx, entries_queue, result_queue, th, yielded, errors, events,
          outcome, input, caller, conn_cache, unread, speed, st_mode,
          parents>>

\* The locals a worker keeps from one entry to the next, and what the file
\* system holds besides the content of each dst.
threadLocals == <<conn_cache, unread, speed>>
diskMeta == <<st_mode, parents>>

runVars == <<epc, mode, threads_count, entries_count, result_count,
             loop_idx, yielded, errors, events, outcome, input>>

engineVars == <<runVars, caller>>

\* What `caller` holds: nothing, an add with what it did, a clear, or
\* execute's reading of os.cpu_count().
NoCall == [op |-> "none"]

AddCall(entry, verify, raised) ==
    [op |-> "add", entry |-> entry, verify |-> verify, raised |-> raised]

ClearCall == [op |-> "clear"]

ExecuteCall(cpu) == [op |-> "execute", cpu |-> cpu]

\* A worker that waits on entries_queue.get() with no entry in hand.
NoItem == [none |-> FALSE]
NoOutcome == "None"

IdleThread ==
    [pc |-> "wait", raw_entry |-> NoItem, try_num |-> 0,
     last_error |-> NoError, gets |-> 0, outcome |-> NoOutcome]

Threads == DOMAIN th

\* The file system before the first add: d2 holds a file of an earlier
\* installation, d1 holds nothing.
InitialFiles == [d \in Dsts |-> IF d = "d2" THEN OldFile ELSE Absent]

\* No worker yet; each file present has the mode of an old file, and the
\* parent directory of a dst exists when the dst does.
RestInit ==
    /\ conn_cache = <<>>
    /\ unread = <<>>
    /\ speed = <<>>
    /\ st_mode = [d \in Dsts |-> IF fs[d] = Absent THEN 0 ELSE OldFileMode]
    /\ parents = {d \in Dsts : fs[d] # Absent}

\* DownloadList.__init__
Init ==
    /\ dl = [entries |-> <<>>, count |-> 0, size |-> 0]
    /\ fs = InitialFiles
    /\ epc = "build"
    /\ mode = "none"
    /\ threads_count = 0
    /\ entries_count = 0
    /\ result_count = 0
    /\ loop_idx = 0
    /\ entries_queue = <<>>
    /\ result_queue = <<>>
    /\ th = <<>>
    /\ yielded = <<>>
    /\ errors = <<>>
    /\ events = <<>>
    /\ outcome = "none"
    /\ input = <<>>
    /\ caller = NoCall
    /\ RestInit

(* -------------------------- DownloadList.add --------------------------- *)

\* An add that skips whenever dst is a file, whatever its size.
ListAddSkipsAnyFile(list, files, entry, verify) ==
    IF verify /\ is_file(files, entry.dst)
    THEN list
    ELSE [entries |-> Append(list.entries, from_entry(entry)),
          count   |-> list.count + 1,
          size    |-> IF entry.size # NoSize THEN list.size + entry.size
                      ELSE list.size]

\* The list after add(entry, verify) returns normally.
ListAdd(list, files, entry, verify) ==
    IF verify /\ is_file(files, entry.dst)
       /\ (entry.size = NoSize \/ entry.size = st_size(files, entry.dst))
    THEN list
    ELSE [entries |-> Append(list.entries, from_entry(entry)),
          count   |-> list.count + 1,
          size    |-> IF entry.size # NoSize THEN list.size + entry.size
                      ELSE list.size]

\* add raises ValueError (from_entry) and leaves the list as it was.
AddRaises(files, entry, verify) ==
    /\ ~(verify /\ is_file(files, entry.dst)
         /\ (entry.size = NoSize \/ entry.size = st_size(files, entry.dst)))
    /\ ~SchemeSupported(entry.url)

Add(entry, verify) ==
    /\ epc = "build"
    /\ Len(dl.entries) < MaxEntries
    /\ dl' = IF AddRaises(fs, entry, verify) THEN dl
             ELSE ListAdd(dl, fs, entry, verify)
    /\ caller' = AddCall(entry, verify, AddRaises(fs, entry, verify))
    /\ UNCHANGED <<fs, diskMeta, threadLocals, runVars, entries_queue, result_queue, th>>

\* DownloadList.clear
ListClear(list) == [entries |-> <<>>, count |-> 0, size |-> 0]

Clear ==
    /\ epc = "build"
    /\ dl' = ListClear(dl)
    /\ caller' = ClearCall
    /\ UNCHANGED <<fs, diskMeta, threadLocals, runVars, entries_queue, result_queue, th>>

(* ---------------- DownloadTask.execute / DownloadList.download --------- *)

\* download, from its first line to the start of the loop that fills the
\* work queue: sort, count, return on nothing to do, spawn the threads.
DownloadStart(tc) ==
    /\ dl' = [dl EXCEPT !.entries = SortEntries(dl.entries)]
    /\ input' = SortEntries(dl.entries)
    /\ threads_count' = tc
    /\ entries_count' = Len(dl.entries)
    /\ result_count' = 0
    /\ IF Len(dl.entries) = 0 \/ tc < 1
       THEN /\ epc' = "after"
            /\ th' = th
            /\ loop_idx' = loop_idx
            /\ UNCHANGED threadLocals
       ELSE /\ epc' = "put"
            /\ th' = [w \in 0..(tc - 1) |-> IdleThread]
            /\ conn_cache' = [w \in 0..(tc - 1) |-> {}]
            /\ unread' = [w \in 0..(tc - 1) |-> {}]
            /\ speed' = [w \in 0..(tc - 1) |-> 0]
            /\ loop_idx' = 1

\* `if not entries_count: return` never returns.
NoEntriesNever(n) == FALSE

\* `if not entries_count: return`
NoEntries(n) == n = 0

\* DownloadTask.execute, up to the first result it waits for.
Execute(cpu) ==
    /\ epc = "build"
    /\ IF NoEntries(Len(dl.entries))
       THEN /\ epc' = "done"
            /\ outcome' = "returned"
            /\ mode' = "task"
            /\ caller' = NoCall
            /\ UNCHANGED <<dl, threadLocals, input, threads_count, entries_count,
                           result_count, th, loop_idx, events>>
       ELSE /\ mode' = "task"
            /\ caller' = ExecuteCall(cpu)
            /\ events' = Append(events,
                   DownloadStartEvent(ThreadsCount(Len(dl.entries), cpu),
                                      Len(dl.entries), dl.size))
            /\ DownloadStart(ThreadsCount(Len(dl.entries), cpu))
            /\ UNCHANGED outcome
    /\ UNCHANGED <<fs, diskMeta, entries_queue, result_queue, yielded, errors>>

\* A caller iterates DownloadList.download(tc) itself.
Download(tc) ==
    /\ epc = "build"
    /\ mode' = "direct"
    /\ DownloadStart(tc)
    /\ caller' = NoCall
    /\ UNCHANGED <<fs, diskMeta, entries_queue, result_queue, yielded, errors,
                   events, outcome>>

\* `for entry in self.entries: entries_queue.put(entry)`, one iteration.
PutEntry ==
    /\ epc = "put"
    /\ entries_queue' = Append(entries_queue, dl.entries[loop_idx])
    /\ IF loop_idx < Len(dl.entries)
       THEN /\ loop_idx' = loop_idx + 1
            /\ epc' = epc
       ELSE /\ loop_idx' = 0
            /\ epc' = "recv"
    /\ caller' = NoCall
    /\ UNCHANGED <<dl, fs, diskMeta, threadLocals, mode, threads_count,
                   entries_count, result_count,
                   result_queue, th, yielded, errors, events, outcome, input>>

\* A count that advances by two.
NextResultCountSkips(rc) == rc + 2

\* `result_count += 1`
NextResultCount(rc) == rc + 1

\* The progress events handed to the watcher newest first.
HandleEventsPrepends(evs, count, result) ==
    IF result.type = "progress"
    THEN <<DownloadProgressEvent(result.thread_id, count, result.entry,
                                 result.size, result.speed)>> \o evs
    ELSE evs

\* Progress events that carry the number of Progress results so far.
HandleEventsCountsSuccesses(evs, count, result) ==
    IF result.type = "progress"
    THEN Append(evs,
                DownloadProgressEvent(
                    result.thread_id,
                    Cardinality({k \in 1..Len(evs) :
                                    evs[k].type = "progress"}) + 1,
                    result.entry, result.size, result.speed))
    ELSE evs

\* The body of execute's for loop, for one yielded pair: the events.
HandleEvents(evs, count, result) ==
    IF result.type = "progress"
    THEN Append(evs, DownloadProgressEvent(result.thread_id, count,
                                           result.entry, result.size,
                                           result.speed))
    ELSE evs

\* The errors collected newest first.
HandleErrorsPrepends(errs, result) ==
    IF result.type = "error"
    THEN <<(<<result.entry, result.code>>)>> \o errs
    ELSE errs

\* The body of execute's for loop, for one yielded pair: the errors.
HandleErrors(errs, result) ==
    IF result.type = "error"
    THEN Append(errs, <<result.entry, result.code>>)
    ELSE errs

\* A loop that stops one result early.
MoreResultsShort(rc, n) == rc < n - 1

\* `while result_count < entries_count`
MoreResults(rc, n) == rc < n

\* One iteration of `while result_count < entries_count`: get, count, yield,
\* and the consumer's handling of the pair.
Receive ==
    /\ epc = "recv"
    /\ MoreResults(result_count, entries_count)
    /\ result_queue # <<>>
    /\ result_queue' = Tail(result_queue)
    /\ result_count' = NextResultCount(result_count)
    /\ yielded' = Append(yielded, <<result_count', Head(result_queue)>>)
    /\ IF mode = "task"
       THEN /\ events' = HandleEvents(events, result_count', Head(result_queue))
            /\ errors' = HandleErrors(errors, Head(result_queue))
       ELSE UNCHANGED <<events, errors>>
    /\ IF MoreResults(result_count', entries_count)
       THEN UNCHANGED <<epc, loop_idx>>
       ELSE /\ epc' = "sentinels"
            /\ loop_idx' = 0
    /\ UNCHANGED <<dl, fs, diskMeta, threadLocals, mode, threads_count,
                   entries_count, entries_queue,
                   th, outcome, input, caller>>

\* A range that ends one sentinel short.
MoreSentinelsShort(put, tc) == put < tc - 1

\* A range that goes one sentinel too far.
MoreSentinelsLong(put, tc) == put < tc + 1

\* `range(threads_count)`: whether another sentinel follows `put` of them.
MoreSentinels(put, tc) == put < tc

\* `for th_id in range(threads_count): entries_queue.put(None)`, one
\* iteration; after the last one the generator is exhausted.
PutSentinel ==
    /\ epc = "sentinels"
    /\ entries_queue' = Append(entries_queue, None)
    /\ IF MoreSentinels(loop_idx + 1, threads_count)
       THEN /\ loop_idx' = loop_idx + 1
            /\ epc' = epc
       ELSE /\ loop_idx' = 0
            /\ epc' = "after"
    /\ UNCHANGED <<dl, fs, diskMeta, threadLocals, mode, threads_count,
                   entries_count, result_count,
                   result_queue, th, yielded, errors, events, outcome, input,
                   caller>>

\* The list is left as it is.
ClearNothing(list) == list

\* What execute does with the list once the sequence is exhausted without
\* errors: `dl.entries.clear()`.
ClearOnSuccess(list) == [list EXCEPT !.entries = <<>>]

\* The end of the call: the direct caller sees the sequence end; execute
\* raises DownloadError(errors), or clears the entries and emits the
\* complete event.
Finish ==
    /\ epc = "after"
    /\ epc' = "done"
    /\ IF mode = "direct"
       THEN /\ outcome' = "exhausted"
            /\ UNCHANGED <<dl, events>>
       ELSE IF Len(errors) # 0
            THEN /\ outcome' = "raised"
                 /\ UNCHANGED <<dl, events>>
            ELSE /\ outcome' = "complete"
                 /\ dl' = ClearOnSuccess(dl)
                 /\ events' = Append(events, DownloadCompleteEvent)
    /\ UNCHANGED <<fs, diskMeta, threadLocals, mode, threads_count,
                   entries_count, result_count,
                   loop_idx, entries_queue, result_queue, th, yielded, errors,
                   input, caller>>

(* --------------------------- _download_thread -------------------------- *)

\* `raw_entry = entries_queue.get()`: the sentinel ends the thread, an entry
\* starts the retry loop with `last_error = None` and `try_num = 0`.
\* The thread function returns or dies: its locals are gone.
ThreadEnds(w) ==
    /\ conn_cache' = [conn_cache EXCEPT ![w] = {}]
    /\ unread' = [unread EXCEPT ![w] = {}]
    /\ speed' = [speed EXCEPT ![w] = 0]

\* A get that leaves the item on the queue.
AfterGetKeeps(queue) == queue

\* The queue after `entries_queue.get()` has returned its first item.
AfterGet(queue) == Tail(queue)

\* `conn_key = (raw_entry.https, raw_entry.host)`
conn_key(raw_entry) == <<raw_entry.https, raw_entry.host>>

Take(w) ==
    /\ th[w].pc = "wait"
    /\ entries_queue # <<>>
    /\ entries_queue' = AfterGet(entries_queue)
    /\ th' = [th EXCEPT ![w] =
                IF IsNone(Head(entries_queue))
                THEN [IdleThread EXCEPT !.pc = "exited"]
                ELSE [IdleThread EXCEPT !.pc = "loop",
                                        !.raw_entry = Head(entries_queue)]]
    /\ IF IsNone(Head(entries_queue))
       THEN ThreadEnds(w)
       ELSE /\ conn_cache' = [conn_cache EXCEPT
                                 ![w] = @ \cup {conn_key(Head(entries_queue))}]
            /\ UNCHANGED <<unread, speed>>
    /\ UNCHANGED <<dl, fs, diskMeta, engineVars, result_queue>>

\* `try_num > max_try_count`, tested after `try_num += 1`.
BudgetExceeded(try_num) == try_num > max_try_count

\* An error once recorded is kept.
RecordErrorFirst(last_error, code) ==
    IF last_error = NoError THEN code ELSE last_error

\* `last_error = DownloadError.X`
RecordError(last_error, code) == code

\* The worker is at the top of the retry loop and the budget allows a GET.
CanRequest(w) ==
    /\ w \in Threads
    /\ th[w].pc = "loop"
    /\ ~BudgetExceeded(th[w].try_num + 1)

\* The worker's record after an attempt that failed with `code` and goes
\* on to the next iteration; `what` is what the server or the stream did.
Failed(t, code, what) ==
    [t EXCEPT !.pc = "loop",
              !.try_num = t.try_num + 1,
              !.last_error = RecordError(t.last_error, code),
              !.gets = t.gets + 1,
              !.outcome = what]

\* The budget is spent: the assertion, then the error result.
GiveUp(w) ==
    /\ th[w].pc = "loop"
    /\ BudgetExceeded(th[w].try_num + 1)
    /\ IF th[w].last_error = NoError
       THEN /\ th' = [th EXCEPT ![w] = [IdleThread EXCEPT !.pc = "assert"]]
            /\ UNCHANGED result_queue
       ELSE /\ result_queue' = Append(result_queue,
                  DownloadResultError(w, th[w].raw_entry.entry, th[w].last_error))
            /\ th' = [th EXCEPT ![w] = IdleThread]
    /\ UNCHANGED <<dl, fs, diskMeta, threadLocals, engineVars, entries_queue>>

\* request / getresponse raises ConnectionError, OSError or HTTPException.
AttemptException(w) ==
    /\ CanRequest(w)
    /\ th' = [th EXCEPT ![w] = Failed(th[w], CONNECTION, "exception")]
    /\ UNCHANGED <<dl, fs, diskMeta, threadLocals, engineVars, entries_queue,
                   result_queue>>

\* A mkdir that comes before the status is looked at.
MkdirParentAlways(dirs, dst, status) == dirs \cup {dst}

\* `entry.dst.parent.mkdir(parents=True, exist_ok=True)`, reached only
\* with status 200.
MkdirParent(dirs, dst, status) ==
    IF status = 200 THEN dirs \cup {dst} ELSE dirs

\* A status other than 200, 301, 302; the body is drained.
AttemptOtherStatus(w) ==
    /\ CanRequest(w)
    /\ th' = [th EXCEPT ![w] = Failed(th[w], NOT_FOUND, "status")]
    /\ parents' = MkdirParent(parents, th[w].raw_entry.entry.dst, 404)
    /\ UNCHANGED <<dl, fs, st_mode, threadLocals, engineVars, entries_queue,
                   result_queue>>

\* A status other than 200, 301, 302 whose drain raises: nothing catches
\* it, the thread dies.
DrainFault(w) ==
    /\ CanRequest(w)
    /\ th' = [th EXCEPT ![w] = [IdleThread EXCEPT !.pc = "crashed"]]
    /\ ThreadEnds(w)
    /\ UNCHANGED <<dl, fs, diskMeta, engineVars, entries_queue, result_queue>>

\* A redirect entry built without `name=entry.name`.
RedirectEntryUnnamed(entry, location) ==
    DownloadEntry(location, entry.dst, entry.size, entry.sha1, NoName, FALSE)

\* A redirect that asks the same URL again.
RedirectEntryKeepsUrl(entry, location) == entry

\* The entry built for a redirect (executable keeps its default).
RedirectEntry(entry, location) ==
    DownloadEntry(location, entry.dst, entry.size, entry.sha1, entry.name, FALSE)

\* 301 or 302: the entry for `location` goes on the work queue and the
\* worker leaves the retry loop; from_entry's ValueError kills the thread.
AttemptRedirect(w, location, will_close) ==
    /\ CanRequest(w)
    /\ IF SchemeSupported(location)
       THEN /\ entries_queue' = Append(entries_queue,
                  from_entry(RedirectEntry(th[w].raw_entry.entry, location)))
            /\ th' = [th EXCEPT ![w] = IdleThread]
            /\ unread' = IF will_close THEN unread
                         ELSE [unread EXCEPT
                                  ![w] = @ \cup {conn_key(th[w].raw_entry)}]
            /\ UNCHANGED <<conn_cache, speed>>
       ELSE /\ th' = [th EXCEPT ![w] = [IdleThread EXCEPT !.pc = "crashed"]]
            /\ ThreadEnds(w)
            /\ UNCHANGED entries_queue
    /\ UNCHANGED <<dl, fs, diskMeta, engineVars, result_queue>>

\* 200: mkdir, then `entry.dst.open("wb")` truncates or creates dst.
AttemptOk(w) ==
    /\ CanRequest(w)
    /\ fs' = [fs EXCEPT ![th[w].raw_entry.entry.dst] = Truncated]
    /\ parents' = MkdirParent(parents, th[w].raw_entry.entry.dst, 200)
    /\ st_mode' = IF fs[th[w].raw_entry.entry.dst] = Absent
                  THEN [st_mode EXCEPT ![th[w].raw_entry.entry.dst] = NewFileMode]
                  ELSE st_mode
    /\ th' = [th EXCEPT ![w].pc = "reading",
                        ![w].try_num = th[w].try_num + 1,
                        ![w].gets = th[w].gets + 1]
    /\ UNCHANGED <<dl, threadLocals, engineVars, entries_queue, result_queue>>

\* The checks in the other order: digest first, then size.
ValidateDigestFirst(entry, size, digest) ==
    IF entry.sha1 # NoSha1 /\ digest # entry.sha1 THEN INVALID_SHA1
    ELSE IF entry.size # NoSize /\ size # entry.size THEN INVALID_SIZE
    ELSE NoError

\* Checks that leave the size out.
ValidateDigestOnly(entry, size, digest) ==
    IF entry.sha1 # NoSha1 /\ digest # entry.sha1 THEN INVALID_SHA1
    ELSE NoError

\* The checks after the body is written: the error code, or NoError.
Validate(entry, size, digest) ==
    IF entry.size # NoSize /\ size # entry.size THEN INVALID_SIZE
    ELSE IF entry.sha1 # NoSha1 /\ digest # entry.sha1 THEN INVALID_SHA1
    ELSE NoError

\* dst is kept whatever the checks say.
AfterChecksKeeps(files, dst, body, code) == [files EXCEPT ![dst] = body]

\* dst is removed whatever the checks say.
AfterChecksUnlinks(files, dst, body, code) == [files EXCEPT ![dst] = Absent]

\* dst after the checks: kept on success, `unlink(missing_ok=True)` else.
AfterChecks(files, dst, body, code) ==
    IF code = NoError THEN [files EXCEPT ![dst] = body]
    ELSE [files EXCEPT ![dst] = Absent]

\* The mode of dst after `if entry.executable: chmod` and the checks:
\* no file is left when a check fails.
ModeAfter(modes, dst, executable, code) ==
    IF code # NoError THEN [modes EXCEPT ![dst] = 0]
    ELSE IF executable THEN [modes EXCEPT ![dst] = Chmod(modes[dst])]
    ELSE modes

\* The body is read to its end and written to dst, then checked.
ReadBody(w, body, elapsed) ==
    /\ th[w].pc = "reading"
    /\ LET entry == th[w].raw_entry.entry
           code  == Validate(entry, BodyLen(body), hexdigest(body))
       IN  /\ fs' = AfterChecks(fs, entry.dst, body, code)
           /\ st_mode' = ModeAfter(st_mode, entry.dst, entry.executable, code)
           /\ speed' = [speed EXCEPT
                           ![w] = SpeedAfter(@, BodyLen(body), elapsed)]
           /\ IF code = NoError
              THEN /\ result_queue' = Append(result_queue,
                         DownloadResultProgress(w, entry, BodyLen(body),
                                                speed'[w]))
                   /\ th' = [th EXCEPT ![w] = IdleThread]
              ELSE /\ th' = [th EXCEPT ![w] =
                         [th[w] EXCEPT !.pc = "loop",
                              !.last_error = RecordError(th[w].last_error, code),
                              !.outcome = body]]
                   /\ UNCHANGED result_queue
    /\ UNCHANGED <<dl, parents, conn_cache, unread, engineVars, entries_queue>>

\* readinto or write raises while the body is streamed: nothing catches it,
\* the thread dies and dst stays as far as it was written.
ReadFault(w) ==
    /\ th[w].pc = "reading"
    /\ th' = [th EXCEPT ![w] = [IdleThread EXCEPT !.pc = "crashed"]]
    /\ ThreadEnds(w)
    /\ UNCHANGED <<dl, fs, diskMeta, engineVars, entries_queue, result_queue>>

(* ---------------------------- specification ---------------------------- *)

Next ==
    \/ \E entry \in InputEntries, verify \in BOOLEAN : Add(entry, verify)
    \/ Clear
    \/ \E cpu \in CpuCounts : Execute(cpu)
    \/ \E tc \in 0..MaxThreads : Download(tc)
    \/ PutEntry
    \/ Receive
    \/ PutSentinel
    \/ Finish
    \/ \E w \in Threads : Take(w)
    \/ \E w \in Threads : GiveUp(w)
    \/ \E w \in Threads : AttemptException(w)
    \/ \E w \in Threads : AttemptOtherStatus(w)
    \/ \E w \in Threads : DrainFault(w)
    \/ \E w \in Threads, location \in Locations, will_close \in ClosingServer :
          AttemptRedirect(w, location, will_close)
    \/ \E w \in Threads : AttemptOk(w)
    \/ \E w \in Threads, body \in Bodies, elapsed \in CoarseClock :
          ReadBody(w, body, elapsed)
    \/ \E w \in Threads : ReadFault(w)

Spec == Init /\ [][Next]_vars

\* The thread ids a run can use: threads_count is at most MaxThreads in a
\* direct call and at most the entry count in execute.
ThreadIds == 0..((IF MaxThreads > MaxEntries THEN MaxThreads ELSE MaxEntries) - 1)

\* The caller's thread, once download has started.
EngineStep == PutEntry \/ Receive \/ PutSentinel \/ Finish

\* A worker whose every attempt ends in a request exception, a status other
\* than 200/301/302, or a 200 whose body is read and written to its end.
WorkerStep(w) ==
    /\ w \in Threads
    /\ \/ Take(w)
       \/ GiveUp(w)
       \/ AttemptException(w)
       \/ AttemptOtherStatus(w)
       \/ AttemptOk(w)
       \/ \E body \in Bodies, elapsed \in CoarseClock :
             ReadBody(w, body, elapsed)

\* The runs without redirects and without faults in a body or a file.
NextLive ==
    \/ \E entry \in InputEntries, verify \in BOOLEAN : Add(entry, verify)
    \/ Clear
    \/ \E cpu \in CpuCounts : Execute(cpu)
    \/ \E tc \in 0..MaxThreads : Download(tc)
    \/ EngineStep
    \/ \E w \in ThreadIds : WorkerStep(w)

\* The caller keeps consuming and every thread that can run eventually does.
LiveSpec ==
    /\ Init
    /\ [][NextLive]_vars
    /\ WF_vars(EngineStep)
    /\ \A w \in ThreadIds : WF_vars(WorkerStep(w))

(* ------------------------- notions of the claims ----------------------- *)

\* The sequence download returns is exhausted.
Exhausted == epc \in {"after", "done"}

\* The caller's call has returned or raised.
RunEnded == epc = "done"

\* The results yielded so far, and every result produced so far.
YieldedResults == [i \in 1..Len(yielded) |-> yielded[i][2]]
AllResults == YieldedResults \o result_queue

\* What identifies an input entry in a result.
MatchKey(entry) == <<entry.dst, entry.size, entry.sha1, entry.name>>

InputKeys == {MatchKey(input[i].entry) : i \in 1..Len(input)}
ResultKeys == {MatchKey(AllResults[i].entry) : i \in 1..Len(AllResults)}

InputsWith(k) ==
    Cardinality({i \in 1..Len(input) : MatchKey(input[i].entry) = k})
ResultsWith(k) ==
    Cardinality({i \in 1..Len(AllResults) : MatchKey(AllResults[i].entry) = k})

(* -------------------------------- C1 ----------------------------------- *)

\* C1: when download runs with threads_count >= 1 over n entries, the
\* completed counts it yields are 1, 2, ... in delivery order, never above
\* n, and once the sequence is exhausted they are exactly 1..n.
C1_CountsRunOneToN ==
    /\ \A i \in 1..Len(yielded) : yielded[i][1] = i
    /\ Len(yielded) <= Len(input)
    /\ (Exhausted /\ threads_count >= 1) => Len(yielded) = Len(input)

\* A direct call with one thread and two entries has yielded both pairs.
C1_Witness ==
    /\ RunEnded
    /\ mode = "direct"
    /\ threads_count = 1
    /\ Len(input) = 2
    /\ Len(yielded) = 2

(* -------------------------------- C2 ----------------------------------- *)

\* C2: no input entry is ever matched by two results, no result matches
\* anything but an input entry, and once the sequence is exhausted every
\* input entry is matched by exactly one result, redirected entries included.
C2_OneResultPerEntry ==
    /\ \A k \in InputKeys \cup ResultKeys : ResultsWith(k) <= InputsWith(k)
    /\ (Exhausted /\ threads_count >= 1) =>
           \A k \in InputKeys : ResultsWith(k) = InputsWith(k)

\* A run of two entries ended with a Progress for a redirected entry and a
\* Failure for the other one.
C2_Witness ==
    /\ RunEnded
    /\ Len(input) = 2
    /\ \E i, j \in 1..Len(yielded) :
          /\ yielded[i][2].type = "progress"
          /\ yielded[i][2].entry.url = "http://h1/r"
          /\ yielded[j][2].type = "error"

(* -------------------------------- C3 ----------------------------------- *)

\* Every result is received, the call has ended, every worker has exited.
AllDone ==
    /\ RunEnded
    /\ result_count = entries_count
    /\ \A w \in Threads : th[w].pc = "exited"

\* C3: without redirects and without faults in a body or a file, a run of
\* n >= 1 entries on threads_count >= 1 threads eventually receives its n
\* results, ends, and every worker consumes a sentinel and exits.
C3_RunTerminates == (epc = "put") ~> AllDone

\* Two workers have exited after a run of two entries.
C3_Witness ==
    /\ AllDone
    /\ Len(input) = 2
    /\ threads_count = 2
    /\ Len(yielded) = 2

(* ----------------------------- C4 and C5 -------------------------------- *)

\* This step puts a Failure / a Progress of worker w on the result queue.
EmitsError(w) ==
    /\ Len(result_queue') = Len(result_queue) + 1
    /\ result_queue'[Len(result_queue')].type = "error"
    /\ result_queue'[Len(result_queue')].thread_id = w

EmitsProgress(w) ==
    /\ Len(result_queue') = Len(result_queue) + 1
    /\ result_queue'[Len(result_queue')].type = "progress"
    /\ result_queue'[Len(result_queue')].thread_id = w

\* The kind the claims give to an attempt, from what the server and the
\* stream did: an exception, a status outside {200, 301, 302}, or a body.
ClaimedKind(entry, what) ==
    CASE what = "exception" -> CONNECTION
      [] what = "status" -> NOT_FOUND
      [] what \in Bodies ->
            IF entry.size # NoSize /\ BodyLen(what) # entry.size
            THEN INVALID_SIZE
            ELSE IF entry.sha1 # NoSha1 /\ hexdigest(what) # entry.sha1
                 THEN INVALID_SHA1
                 ELSE NoError
      [] OTHER -> NoError

\* C4: a worker issues at most 3 GETs for a work item, the assertion
\* `last_error is not None` never fails, and a Failure is put on the result
\* queue only after the third GET, with the kind of the last failed attempt,
\* which is one of the four error codes.
C4_RetryBudget ==
    /\ [](\A w \in Threads : th[w].gets <= 3 /\ th[w].pc # "assert")
    /\ [][\A w \in Threads :
            EmitsError(w) =>
               /\ th[w].gets = 3
               /\ result_queue'[Len(result_queue')].code \in ErrorCodes
               /\ result_queue'[Len(result_queue')].code =
                     ClaimedKind(th[w].raw_entry.entry, th[w].outcome)]_vars

\* The only entry, whose dst held an old file, failed with ConnectionError
\* after an earlier attempt of it had failed validation and removed dst.
C4_Witness ==
    /\ Len(input) = 1
    /\ fs["d2"] = Absent
    /\ \E i \in 1..Len(result_queue) :
          /\ result_queue[i].type = "error"
          /\ result_queue[i].code = CONNECTION
          /\ result_queue[i].entry.dst = "d2"

\* C5: after a failed attempt last_error is ConnectionError for an
\* exception, NotFound for a status outside {200, 301, 302}, InvalidSize for
\* a body whose length differs from the declared size (whatever its digest),
\* InvalidSha1 for a body of the right or undeclared size whose digest
\* differs from the declared one; a body is refused only if it fails a
\* declared check, and a Progress is put only for a body that passes both.
C5_Classification ==
    /\ [](\A w \in Threads :
            (th[w].pc = "loop" /\ th[w].outcome # NoOutcome) =>
               /\ th[w].last_error \in ErrorCodes
               /\ th[w].last_error =
                     ClaimedKind(th[w].raw_entry.entry, th[w].outcome))
    /\ [][\A w \in Threads :
            /\ (th[w].pc = "reading" /\ th'[w].pc = "loop") =>
                  /\ th'[w].outcome \in Bodies
                  /\ ClaimedKind(th[w].raw_entry.entry, th'[w].outcome) # NoError
            /\ EmitsProgress(w) =>
                  /\ th[w].pc = "reading"
                  /\ fs'[th[w].raw_entry.entry.dst] \in Bodies
                  /\ ClaimedKind(th[w].raw_entry.entry,
                                 fs'[th[w].raw_entry.entry.dst]) = NoError
                  /\ result_queue'[Len(result_queue')].size =
                        BodyLen(fs'[th[w].raw_entry.entry.dst])]_vars

\* A body with the wrong length and the wrong digest was recorded as
\* InvalidSize for an entry that declares both.
C5_Witness ==
    \E w \in Threads :
        /\ th[w].pc = "loop"
        /\ th[w].outcome = "C"
        /\ th[w].raw_entry.entry.size = 2
        /\ th[w].raw_entry.entry.sha1 = "ha"
        /\ th[w].last_error = INVALID_SIZE

(* ----------------------------- C6 and C7 -------------------------------- *)

\* dst is the dst of exactly one entry of the run.
UniqueDst(dst) ==
    Cardinality({i \in 1..Len(input) : input[i].entry.dst = dst}) = 1

\* C6: when the run has ended, the dst of every entry that failed with
\* InvalidSize or InvalidSha1, and shares its dst with no other entry, does
\* not exist, whether or not it existed before the run.
C6_InvalidLeavesNoFile ==
    RunEnded =>
        \A i \in 1..Len(yielded) :
            ( /\ yielded[i][2].type = "error"
              /\ yielded[i][2].code \in {INVALID_SIZE, INVALID_SHA1}
              /\ UniqueDst(yielded[i][2].entry.dst) )
            => ~is_file(fs, yielded[i][2].entry.dst)

\* A run ended with InvalidSize for d1, absent before the run, and
\* InvalidSha1 for d2, which held a file before the run.
C6_Witness ==
    /\ RunEnded
    /\ InitialFiles["d1"] = Absent /\ InitialFiles["d2"] = OldFile
    /\ \E i, j \in 1..Len(yielded) :
          /\ yielded[i][2].type = "error"
          /\ yielded[i][2].code = INVALID_SIZE
          /\ yielded[i][2].entry.dst = "d1"
          /\ yielded[j][2].type = "error"
          /\ yielded[j][2].code = INVALID_SHA1
          /\ yielded[j][2].entry.dst = "d2"

\* C7: when the run has ended, the dst of every entry that yielded Progress,
\* and shares its dst with no other entry, is a regular file whose size is
\* the size the Progress carries.
C7_ProgressLeavesFile ==
    RunEnded =>
        \A i \in 1..Len(yielded) :
            ( /\ yielded[i][2].type = "progress"
              /\ UniqueDst(yielded[i][2].entry.dst) )
            => /\ is_file(fs, yielded[i][2].entry.dst)
               /\ st_size(fs, yielded[i][2].entry.dst) = yielded[i][2].size

\* A run of two entries ended with a Progress for each, of 1 and 2 bytes.
C7_Witness ==
    /\ RunEnded
    /\ Len(yielded) = 2
    /\ \E i, j \in 1..Len(yielded) :
          /\ yielded[i][2].type = "progress"
          /\ yielded[i][2].entry.dst = "d1"
          /\ yielded[i][2].size = 1
          /\ yielded[j][2].type = "progress"
          /\ yielded[j][2].entry.dst = "d2"
          /\ yielded[j][2].size = 2

(* --------------------------- C8, C9 and C10 ---------------------------- *)

IsError(result) == result.type = "error"
IsProgressEvent(event) == event.type = "progress"
IsCompleteEvent(event) == event.type = "complete"

\* The (entry, kind) pairs of the Failures received, in arrival order.
FailuresReceived ==
    LET failures == SelectSeq(YieldedResults, IsError)
    IN  [i \in 1..Len(failures) |-> <<failures[i].entry, failures[i].code>>]

\* C8: when execute has consumed the whole sequence and received a Failure,
\* it raises DownloadError with one (entry, kind) pair per Failure received,
\* in arrival order, and the ProgressEvents and the pairs add up to n.
C8_FailuresAggregated ==
    (mode = "task" /\ RunEnded /\ Len(FailuresReceived) > 0) =>
        /\ outcome = "raised"
        /\ errors = FailuresReceived
        /\ Len(SelectSeq(events, IsProgressEvent)) + Len(errors) = Len(input)

\* execute raised with two pairs of different kinds.
C8_Witness ==
    /\ mode = "task"
    /\ outcome = "raised"
    /\ Len(errors) = 2
    /\ errors[1][2] # errors[2][2]

\* C9: a run of execute over a non-empty list ends either with no Failure
\* received, the entries cleared and CompleteEvent as the last event, or
\* with a Failure received, DownloadError raised, no CompleteEvent and every
\* entry still in the list; no CompleteEvent is emitted before that.
C9_SuccessOrFailure ==
    /\ (Len(SelectSeq(events, IsCompleteEvent)) > 0) => outcome = "complete"
    /\ (mode = "task" /\ RunEnded /\ Len(input) > 0) =>
          IF Len(FailuresReceived) = 0
          THEN /\ outcome = "complete"
               /\ dl.entries = <<>>
               /\ IsCompleteEvent(events[Len(events)])
               /\ Len(SelectSeq(events, IsCompleteEvent)) = 1
          ELSE /\ outcome = "raised"
               /\ dl.entries = input

\* execute raised after one entry succeeded and one failed; both are still
\* in the list.
C9_Witness ==
    /\ mode = "task"
    /\ outcome = "raised"
    /\ Len(dl.entries) = 2
    /\ Len(errors) = 1
    /\ Len(SelectSeq(events, IsProgressEvent)) = 1

\* C10: after a successful run of execute the list is fully reset:
\* entries is empty, count is 0 and size is 0.
C10_ListFullyReset ==
    (mode = "task" /\ outcome = "complete") =>
        /\ dl.entries = <<>>
        /\ dl.count = 0
        /\ dl.size = 0

(* ------------------------------- C11 ----------------------------------- *)

\* C11: a run over a list with zero entries emits no StartEvent and no
\* CompleteEvent, spawns no worker, queues and yields nothing, leaves the
\* list as it was (empty, count 0, size 0), and execute has then returned
\* at once.
C11_EmptyRunDoesNothing ==
    (mode # "none" /\ input = <<>>) =>
        /\ events = <<>>
        /\ Threads = {}
        /\ entries_queue = <<>>
        /\ result_queue = <<>>
        /\ yielded = <<>>
        /\ errors = <<>>
        /\ dl = ListClear(dl)
        /\ mode = "task" => (epc = "done" /\ outcome = "returned")

C11_Witness ==
    /\ mode = "task"
    /\ input = <<>>
    /\ epc = "done"
    /\ outcome = "returned"
    /\ dl.entries = <<>>

(* ---------------- dispatch: lists of many sizes and lengths ------------ *)

\* The longest list of like entries, and the longest list of entries of
\* differing sizes, that execute is run on.
MaxSizing == 9
MaxSortLen == 3

\* DownloadEntry.size: not declared, zero, below and above 1 Mio.
DeclaredSizes == {NoSize, 0, 2, 2097152}

SizedEntries ==
    { DownloadEntry("http://h1/a", "d1", s, NoSha1, NoName, FALSE) :
          s \in DeclaredSizes }

\* add(entry) called for each entry of es in turn.
RECURSIVE AddAll(_, _)
AddAll(list, es) ==
    IF es = <<>> THEN list
    ELSE AddAll(ListAdd(list, InitialFiles, Head(es), FALSE), Tail(es))

DispatchLists ==
    { AddAll(ListClear(<<>>), es) :
          es \in UNION { [1..k -> SizedEntries] : k \in 0..MaxSortLen } }
    \cup
    { AddAll(ListClear(<<>>),
             [i \in 1..k |->
                  DownloadEntry("http://h1/a", "d1", NoSize, NoSha1,
                                NoName, FALSE)]) : k \in 0..MaxSizing }

\* A list the caller has built, about to be handed to execute.
DispatchInit ==
    /\ dl \in DispatchLists
    /\ fs = InitialFiles
    /\ epc = "build"
    /\ mode = "none"
    /\ threads_count = 0
    /\ entries_count = 0
    /\ result_count = 0
    /\ loop_idx = 0
    /\ entries_queue = <<>>
    /\ result_queue = <<>>
    /\ th = <<>>
    /\ yielded = <<>>
    /\ errors = <<>>
    /\ events = <<>>
    /\ outcome = "none"
    /\ input = <<>>
    /\ caller = NoCall
    /\ RestInit

\* execute up to the last entries_queue.put(entry), before any worker runs.
DispatchNext ==
    \/ \E cpu \in CpuCounts : Execute(cpu)
    \/ PutEntry

DispatchSpec == DispatchInit /\ [][DispatchNext]_vars

(* ------------------------------- C12 ----------------------------------- *)

Max(a, b) == IF a > b THEN a ELSE b

\* What execute has just spawned and reported, against a count.
SpawnedAndReported(expected) ==
    /\ Cardinality(Threads) = expected
    /\ threads_count = expected
    /\ Len(events) = 1
    /\ events[1].type = "start"
    /\ events[1].threads_count = expected
    /\ events[1].entries_count = Len(input)

\* C12 as stated: for every entry count n >= 1 and every CPU count of the
\* host (0 for an unknown or zero count), the number of workers spawned
\* and reported in StartEvent is min(n, max(1, 4 * cpu_count)).
C12_WorkerCountAsStated ==
    caller.op = "execute" =>
        SpawnedAndReported(Min(Len(input), Max(1, 4 * caller.cpu)))

\* C12: for every entry count n >= 1 and every CPU count of the host (0
\* for an unknown or zero count), the number of workers spawned and
\* reported in StartEvent is min(n, 4 * max(1, cpu_count)): an unknown or
\* zero count is taken as one CPU before the factor 4 applies; the number
\* is at least 1 and at most n.
C12_WorkerCount ==
    caller.op = "execute" =>
        /\ SpawnedAndReported(Min(Len(input), 4 * Max(1, caller.cpu)))
        /\ Cardinality(Threads) >= 1
        /\ Cardinality(Threads) <= Len(input)

C12_Witness ==
    /\ caller.op = "execute"
    /\ caller.cpu = 0
    /\ Len(input) = MaxSizing
    /\ Cardinality(Threads) = 4
    /\ events[1].threads_count = 4

(* ------------------------------- C13 ----------------------------------- *)

\* The key of the sort contract: the declared size, 1 Mio when none is
\* declared.
ContractKey(e) ==
    IF e.entry.size = NoSize THEN DefaultSortSize ELSE e.entry.size

\* C13: for every list (declared sizes any non-negative integer, 0
\* included, or undeclared) the entries are put on the work queue in
\* non-increasing order of key, the key being the declared size, and
\* 1048576 only when no size is declared.
C13_SortContract ==
    \A i, j \in 1..Len(entries_queue) :
        i < j => ContractKey(entries_queue[i]) >= ContractKey(entries_queue[j])

(* ------------------------------- C14 ----------------------------------- *)

\* Worker w leaves the item it holds and goes back to entries_queue.get().
LeavesItem(w) == th[w].pc = "loop" /\ th'[w].pc = "wait"

\* The step appends to the work queue an item for a Location URL that keeps
\* the dst, size, sha1 and name of the item w holds.
Reinjects(w) ==
    /\ Len(entries_queue') = Len(entries_queue) + 1
    /\ SubSeq(entries_queue', 1, Len(entries_queue)) = entries_queue
    /\ LET new == entries_queue'[Len(entries_queue')]
           old == th[w].raw_entry.entry
       IN  /\ ~IsNone(new)
           /\ new.entry.url \in Locations
           /\ new.entry.dst = old.dst
           /\ new.entry.size = old.size
           /\ new.entry.sha1 = old.sha1
           /\ new.entry.name = old.name
           /\ new = from_entry(new.entry)

\* No worker thread has died with an item in hand.
NoLostItem == \A w \in Threads : th[w].pc \notin {"crashed", "assert"}

\* The items still to be worked on: queued, or in a worker's hands.
Pending ==
    Cardinality({i \in 1..Len(entries_queue) : ~IsNone(entries_queue[i])})
    + Cardinality({w \in Threads : th[w].pc \in {"loop", "reading"}})

\* C14: a worker that leaves its item without a Failure (the 301/302 case)
\* has put exactly one new item for the Location URL, with the same dst,
\* size, sha1 and name, at the end of the work queue, has put no result,
\* and waits for its next item; whoever takes an item, re-injected or not,
\* starts it with no attempt used and no error recorded; and while no
\* thread has died the items pending plus the results produced number the
\* input entries, so a redirected entry ends in exactly one result.
C14_RedirectReinjects ==
    /\ [][\A w \in Threads :
            LeavesItem(w) =>
               \/ /\ EmitsError(w)
                  /\ entries_queue' = entries_queue
               \/ /\ result_queue' = result_queue
                  /\ Reinjects(w)
                  /\ th'[w] = IdleThread]_vars
    /\ [][\A w \in Threads :
            (th[w].pc = "wait" /\ th'[w].pc = "loop") =>
               /\ th'[w].raw_entry = Head(entries_queue)
               /\ th'[w].try_num = 0
               /\ th'[w].gets = 0
               /\ th'[w].last_error = NoError]_vars
    /\ []((Threads # {} /\ epc \in {"recv", "after", "done"} /\ NoLostItem)
             => Pending + Len(AllResults) = Len(input))

\* The only entry of a run was redirected and the run ended with exactly
\* one result, a Progress for the Location URL.
C14_Witness ==
    /\ RunEnded
    /\ mode = "task"
    /\ Len(input) = 1
    /\ input[1].entry.url \in InputUrls
    /\ Len(yielded) = 1
    /\ yielded[1][2].type = "progress"
    /\ yielded[1][2].entry.url = "http://h1/r"
    /\ result_queue = <<>>

(* ------------- runs against a server that always redirects ------------- *)

\* The Location values from_entry accepts.
GoodLocations == {l \in Locations : SchemeSupported(l)}

\* A worker whose every request is answered with 301 or 302.
RedirectedStep(w) ==
    /\ w \in Threads
    /\ \/ Take(w)
       \/ \E location \in GoodLocations, will_close \in ClosingServer :
             AttemptRedirect(w, location, will_close)

RedirectNext ==
    \/ \E entry \in InputEntries, verify \in BOOLEAN : Add(entry, verify)
    \/ Clear
    \/ \E cpu \in CpuCounts : Execute(cpu)
    \/ PutEntry
    \/ \E w \in ThreadIds : RedirectedStep(w)

\* The caller keeps filling the queue and every worker thread keeps running.
RedirectSpec ==
    /\ Init
    /\ [][RedirectNext]_vars
    /\ WF_vars(PutEntry)
    /\ \A w \in ThreadIds : WF_vars(RedirectedStep(w))

(* ------------------------------- C15 ----------------------------------- *)

\* C15: redirect chains are cut after 5 hops with Failure{NotFound}, so a
\* run against a server that answers every request with 301/302 still
\* delivers one result per entry and terminates.
C15_RedirectsCapped ==
    (epc = "put") ~> (RunEnded /\ Len(AllResults) = Len(input))

(* --------------- building a list over any file system ------------------ *)

\* A new list, the destinations holding whatever earlier runs left.
BuildInit ==
    /\ dl = ListClear(<<>>)
    /\ fs \in [Dsts -> FileStates]
    /\ epc = "build"
    /\ mode = "none"
    /\ threads_count = 0
    /\ entries_count = 0
    /\ result_count = 0
    /\ loop_idx = 0
    /\ entries_queue = <<>>
    /\ result_queue = <<>>
    /\ th = <<>>
    /\ yielded = <<>>
    /\ errors = <<>>
    /\ events = <<>>
    /\ outcome = "none"
    /\ input = <<>>
    /\ caller = NoCall
    /\ RestInit

\* The caller's add and clear calls.
BuildNext ==
    \/ \E entry \in InputEntries, verify \in BOOLEAN : Add(entry, verify)
    \/ Clear

BuildSpec == BuildInit /\ [][BuildNext]_vars

(* ------------------------------- C16 ----------------------------------- *)

\* The sum of the declared sizes of prepared entries.
RECURSIVE SumDeclared(_)
SumDeclared(es) ==
    IF es = <<>> THEN 0
    ELSE (IF Head(es).entry.size = NoSize THEN 0 ELSE Head(es).entry.size)
         + SumDeclared(Tail(es))

\* The step is a call of add that returns or raises.
AddStep == epc = "build" /\ epc' = "build" /\ caller'.op = "add"

\* add(entry, verify=True) finds dst a regular file of the declared size,
\* or of any size when none is declared.
AlreadyThere(entry, verify) ==
    /\ verify
    /\ fs[entry.dst] # Absent
    /\ (entry.size = NoSize \/ entry.size = st_size(fs, entry.dst))

\* C16: add with verify=true, dst an existing regular file and the size
\* undeclared or equal to the size on disk leaves entries, count and size
\* unchanged; in every other case with an http/https URL it appends one
\* prepared entry at the end, adds 1 to count and the declared size (0 when
\* undeclared) to size; so after any sequence of add and clear calls
\* count = len(entries) and size = the sum of the declared sizes.
C16_AddFrame ==
    /\ [][AddStep =>
            LET entry == caller'.entry
            IN  IF AlreadyThere(entry, caller'.verify)
                THEN dl' = dl /\ ~caller'.raised
                ELSE urlparse(entry.url).scheme \in {"http", "https"} =>
                       /\ ~caller'.raised
                       /\ Len(dl'.entries) = Len(dl.entries) + 1
                       /\ SubSeq(dl'.entries, 1, Len(dl.entries)) = dl.entries
                       /\ dl'.entries[Len(dl'.entries)].entry = entry
                       /\ dl'.count = dl.count + 1
                       /\ dl'.size = dl.size + (IF entry.size = NoSize THEN 0
                                                ELSE entry.size)]_vars
    /\ [](/\ dl.count = Len(dl.entries)
          /\ dl.size = SumDeclared(dl.entries))

\* An add with verify was skipped because dst holds a file of the declared
\* size, after another add had appended an entry of declared size 1.
C16_Witness ==
    /\ caller.op = "add"
    /\ caller.verify
    /\ ~caller.raised
    /\ caller.entry.size # NoSize
    /\ caller.entry.size = st_size(fs, caller.entry.dst)
    /\ fs[caller.entry.dst] # Absent
    /\ Len(dl.entries) = 1
    /\ dl.count = 1
    /\ dl.size = 1

(* ------------------------------- C17 ----------------------------------- *)

HttpOrHttps(url) == urlparse(url).scheme \in {"http", "https"}

\* The entries on their way through the run: in the list, on the work
\* queue, in a worker's hands, in a result.
Dispatched ==
    {dl.entries[i].entry : i \in 1..Len(dl.entries)}
    \cup {entries_queue[i].entry :
              i \in {j \in 1..Len(entries_queue) : ~IsNone(entries_queue[j])}}
    \cup {th[w].raw_entry.entry :
              w \in {v \in Threads : th[v].pc \in {"loop", "reading"}}}
    \cup {AllResults[i].entry : i \in 1..Len(AllResults)}
    \cup {errors[i][1] : i \in 1..Len(errors)}
    \cup {events[i].entry :
              i \in {j \in 1..Len(events) : events[j].type = "progress"}}

\* C17: add with a URL whose scheme is neither http nor https, when not
\* skipped by verify, raises and leaves entries, count and size as they
\* were; no entry with such a URL is ever in the list, on the work queue,
\* in a worker's hands, in a result, an error or an event.
C17_BadSchemeRejected ==
    /\ [][(AddStep /\ ~AlreadyThere(caller'.entry, caller'.verify)
                   /\ ~HttpOrHttps(caller'.entry.url))
             => (caller'.raised /\ dl' = dl)]_vars
    /\ [](\A entry \in Dispatched : HttpOrHttps(entry.url))

\* add of the ftp entry has just raised on a list of one entry.
C17_Witness ==
    /\ caller.op = "add"
    /\ caller.raised
    /\ ~HttpOrHttps(caller.entry.url)
    /\ Len(dl.entries) = 1
    /\ dl.count = 1

(* ------------------------------- C18 ----------------------------------- *)

\* The input entries the i-th yielded result stands for.
InputsOf(i) ==
    {input[k].entry :
        k \in {j \in 1..Len(input) :
                  MatchKey(input[j].entry) = MatchKey(yielded[i][2].entry)}}

\* add(entry, verify=True), called now on `list`, returns and changes
\* nothing.
AddIsNoOp(list, entry) ==
    /\ ~AddRaises(fs, entry, TRUE)
    /\ ListAdd(list, fs, entry, TRUE) = list

\* Lists add may be called on after the run: the one that was run, a new
\* one, one that holds an entry.
SomeLists ==
    {dl, ListClear(dl),
     ListAdd(ListClear(dl), fs,
             DownloadEntry("https://h2/b", "d1", 1, NoSha1, "n4", FALSE),
             FALSE)}

\* C18 as stated: after a run in which entry e yielded Progress, add(e,
\* verify=true) on any list is a no-op.
C18_RoundTripAsStated ==
    RunEnded =>
        \A i \in 1..Len(yielded) :
            yielded[i][2].type = "progress" =>
                \A e \in InputsOf(i), list \in SomeLists : AddIsNoOp(list, e)

\* C18: after a run in which entry e, whose dst is the dst of no other
\* entry of the run, yielded Progress (e with or without a declared size),
\* add(e, verify=true) on any list is a no-op: entries, count and size are
\* unchanged.
C18_RoundTrip ==
    RunEnded =>
        \A i \in 1..Len(yielded) :
            ( /\ yielded[i][2].type = "progress"
              /\ UniqueDst(yielded[i][2].entry.dst) )
            => \A e \in InputsOf(i), list \in SomeLists : AddIsNoOp(list, e)

\* A run ended with a Progress for an entry of declared size and one for
\* an entry of undeclared size, each alone on its dst.
C18_Witness ==
    /\ RunEnded
    /\ \E i, j \in 1..Len(yielded) :
          /\ yielded[i][2].type = "progress"
          /\ yielded[i][2].entry.size # NoSize
          /\ UniqueDst(yielded[i][2].entry.dst)
          /\ InputsOf(i) # {}
          /\ yielded[j][2].type = "progress"
          /\ yielded[j][2].entry.size = NoSize
          /\ UniqueDst(yielded[j][2].entry.dst)
          /\ InputsOf(j) # {}

(* ------------------------------- C19 ----------------------------------- *)

IsStartEvent(event) == event.type = "start"
IsProgressPair(pair) == pair[2].type = "progress"

\* The progress events the watcher got, and the yielded pairs that carry a
\* Progress, each in order.
ProgressEvents == SelectSeq(events, IsProgressEvent)
ProgressPairs == SelectSeq(yielded, IsProgressPair)

\* C19: in a run of execute over a non-empty list the watcher gets exactly
\* one StartEvent, before any other event; one ProgressEvent per Progress
\* result, in arrival order, carrying that result and its count, the counts
\* strictly increasing; a CompleteEvent at most once and after every
\* ProgressEvent; and a run that ends without a Failure has emitted as
\* many ProgressEvents as there are entries.
C19_EventProtocol ==
    (mode = "task" /\ input # <<>>) =>
        /\ Len(events) >= 1
        /\ IsStartEvent(events[1])
        /\ Len(SelectSeq(events, IsStartEvent)) = 1
        /\ Len(ProgressEvents) = Len(ProgressPairs)
        /\ \A i \in 1..Len(ProgressEvents) :
              /\ ProgressEvents[i].count = ProgressPairs[i][1]
              /\ ProgressEvents[i].entry = ProgressPairs[i][2].entry
              /\ ProgressEvents[i].thread_id = ProgressPairs[i][2].thread_id
              /\ ProgressEvents[i].size = ProgressPairs[i][2].size
              /\ i > 1 => ProgressEvents[i].count > ProgressEvents[i - 1].count
        /\ Len(SelectSeq(events, IsCompleteEvent)) <= 1
        /\ \A i \in 1..Len(events) :
              IsCompleteEvent(events[i]) => (i = Len(events) /\ RunEnded)
        /\ (RunEnded /\ errors = <<>>) =>
              /\ Len(ProgressEvents) = Len(input)
              /\ IsCompleteEvent(events[Len(events)])

\* A run of two entries ended with a Failure received first and a Progress
\* second: start, then one progress event with count 2, no complete event.
C19_Witness ==
    /\ RunEnded
    /\ mode = "task"
    /\ Len(input) = 2
    /\ Len(yielded) = 2
    /\ yielded[1][2].type = "error"
    /\ yielded[2][2].type = "progress"
    /\ Len(events) = 2
    /\ IsStartEvent(events[1])
    /\ IsProgressEvent(events[2])
    /\ events[2].count = 2

(* ------------------- DownloadEntry.__eq__ and __hash__ ----------------- *)

\* hash() of a str and of an Optional[int], as small codes; equal values
\* have equal codes.
StrHash(s) ==
    CASE s = "http://h1/a"  -> 11
      [] s = "https://h2/b" -> 12
      [] s = "d1"           -> 21
      [] s = "d2"           -> 22
      [] s = "ha"           -> 31
      [] OTHER              -> 7

IntHash(n) == IF n = NoSize THEN 7 ELSE n

\* hash() of a 4-tuple, from the hashes of its items.
TupleHash(url, dst, size, sha1) ==
    (((StrHash(url) * 31 + StrHash(dst)) * 31 + IntHash(size)) * 31
     + StrHash(sha1)) % 65536

\* An equality that also looks at the name.
EntryEqWithName(a, b) ==
    <<a.url, a.dst, a.size, a.sha1, a.name>>
        = <<b.url, b.dst, b.size, b.sha1, b.name>>

\* DownloadEntry.__eq__
EntryEq(a, b) ==
    <<a.url, a.dst, a.size, a.sha1>> = <<b.url, b.dst, b.size, b.sha1>>

\* DownloadEntry.__hash__
EntryHash(e) == TupleHash(e.url, e.dst, e.size, e.sha1)

\* The entries compared: every mix of two values per field.
IdentityEntries ==
    { DownloadEntry(url, dst, size, sha1, name, executable) :
          url \in {"http://h1/a", "https://h2/b"}, dst \in Dsts,
          size \in {NoSize, 1, 2}, sha1 \in {NoSha1, "ha"},
          name \in {NoName, "n2"}, executable \in BOOLEAN }

\* Two entries in the caller's hands, and what comparing them gave.
PairCall(a, b) == [op |-> "pair", a |-> a, b |-> b]

CompareCall(a, b) ==
    [op |-> "compare", a |-> a, b |-> b, eq |-> EntryEq(a, b),
     hash_a |-> EntryHash(a), hash_b |-> EntryHash(b)]

IdentityInit ==
    /\ dl = ListClear(<<>>)
    /\ fs = InitialFiles
    /\ epc = "build"
    /\ mode = "none"
    /\ threads_count = 0
    /\ entries_count = 0
    /\ result_count = 0
    /\ loop_idx = 0
    /\ entries_queue = <<>>
    /\ result_queue = <<>>
    /\ th = <<>>
    /\ yielded = <<>>
    /\ errors = <<>>
    /\ events = <<>>
    /\ outcome = "none"
    /\ input = <<>>
    /\ caller \in {PairCall(a, b) : a \in IdentityEntries, b \in IdentityEntries}
    /\ RestInit

\* `a == b`, `hash(a)`, `hash(b)`
Compare ==
    /\ caller.op = "pair"
    /\ caller' = CompareCall(caller.a, caller.b)
    /\ UNCHANGED <<dl, fs, diskMeta, threadLocals, runVars, entries_queue, result_queue, th>>

IdentityNext == Compare

IdentitySpec == IdentityInit /\ [][IdentityNext]_vars

(* ------------------------------- C20 ----------------------------------- *)

\* The two entries agree on url, dst, size and sha1.
SameFour(a, b) ==
    /\ a.url = b.url
    /\ a.dst = b.dst
    /\ a.size = b.size
    /\ a.sha1 = b.sha1

\* C20: two entries with the same url, dst, size and sha1 compare equal and
\* have equal hashes, whatever their name and executable flag; two entries
\* that differ in one of the four fields compare unequal.
C20_EntryIdentity ==
    caller.op = "compare" =>
        /\ SameFour(caller.a, caller.b) =>
              (caller.eq /\ caller.hash_a = caller.hash_b)
        /\ ~SameFour(caller.a, caller.b) => ~caller.eq

\* Two entries that differ in name and executable flag only were found
\* equal, with one hash.
C20_Witness ==
    /\ caller.op = "compare"
    /\ SameFour(caller.a, caller.b)
    /\ caller.a.name # caller.b.name
    /\ caller.a.executable # caller.b.executable
    /\ caller.eq
    /\ caller.hash_a = caller.hash_b

(* ------------------------------- C21 ----------------------------------- *)

\* C21: a worker that is streaming the body of a 200 to dst keeps running
\* whatever the stream does: it either puts the Progress, or goes on to the
\* next attempt of the same entry with last_error recorded (ConnectionError
\* when the read raised, InvalidSize or InvalidSha1 when a check failed).
C21_BodyFaultHandled ==
    [][\A w \in Threads :
          (th[w].pc = "reading" /\ th'[w] # th[w]) =>
              \/ EmitsProgress(w)
              \/ /\ th'[w].pc = "loop"
                 /\ th'[w].raw_entry = th[w].raw_entry
                 /\ th'[w].last_error \in
                       {CONNECTION, INVALID_SIZE, INVALID_SHA1}]_vars

(* ------------- runs against servers that keep connections open --------- *)

\* A worker whose requests raise, are redirected (the server closing the
\* connection or not) or are answered with 200 and a body read to its end.
ConnStep(w) ==
    /\ w \in Threads
    /\ \/ Take(w)
       \/ GiveUp(w)
       \/ AttemptException(w)
       \/ \E location \in GoodLocations, will_close \in AnyServer :
             AttemptRedirect(w, location, will_close)
       \/ AttemptOk(w)
       \/ \E body \in Bodies, elapsed \in CoarseClock :
             ReadBody(w, body, elapsed)

ConnNext ==
    \/ \E entry \in InputEntries, verify \in BOOLEAN : Add(entry, verify)
    \/ Clear
    \/ \E cpu \in CpuCounts : Execute(cpu)
    \/ EngineStep
    \/ \E w \in ThreadIds : ConnStep(w)

ConnSpec == Init /\ [][ConnNext]_vars

\* Worker w sends a request in this step.
Requests(w) ==
    /\ th[w].pc = "loop"
    /\ th'[w] # th[w]
    /\ ~BudgetExceeded(th[w].try_num + 1)

(* ------------------------------- C22 ----------------------------------- *)

\* C22: when request/getresponse raises, the worker has removed the
\* connection from its (https, host) cache before the next attempt.
C22_ConnectionInvalidated ==
    [][\A w \in Threads :
          (Requests(w) /\ th'[w].pc = "loop" /\ th'[w].outcome = "exception")
              => conn_key(th[w].raw_entry) \notin conn_cache'[w]]_vars

(* ------------------------------- C23 ----------------------------------- *)

\* C23: a worker never sends a request on a cached connection on which it
\* has left an earlier response unread.
C23_OneRequestInFlight ==
    [][\A w \in Threads :
          Requests(w) => conn_key(th[w].raw_entry) \notin unread[w]]_vars

(* ------------------------------- C24 ----------------------------------- *)

\* The sentinels on the work queue, and the workers that have consumed one.
SentinelsQueued ==
    Cardinality({i \in 1..Len(entries_queue) : IsNone(entries_queue[i])})
Exited == {w \in Threads : th[w].pc = "exited"}

\* C24: no sentinel is on the work queue or consumed before the n-th result
\* has been yielded; the sentinels put never exceed threads_count and are
\* exactly threads_count once download is exhausted; a worker that takes a
\* sentinel exits, and an exited worker takes nothing more, so each worker
\* consumes one sentinel; once all workers have exited the queue is empty.
C24_SentinelProtocol ==
    /\ []((SentinelsQueued + Cardinality(Exited) > 0)
             => (Len(yielded) = Len(input) /\ result_count = entries_count))
    /\ [](SentinelsQueued + Cardinality(Exited) <= threads_count)
    /\ []((Exhausted /\ Threads # {})
             => SentinelsQueued + Cardinality(Exited) = threads_count)
    /\ []((Threads # {} /\ Exited = Threads) => entries_queue = <<>>)
    /\ [][\A w \in Threads :
             /\ th[w].pc = "exited" => th'[w] = th[w]
             /\ (th[w].pc = "wait" /\ th'[w] # th[w]
                 /\ IsNone(Head(entries_queue)))
                   => (th'[w].pc = "exited"
                       /\ entries_queue' = Tail(entries_queue))]_vars

\* Two workers have exited after a run of two entries and the work queue
\* is empty.
C24_Witness ==
    /\ RunEnded
    /\ threads_count = 2
    /\ Len(yielded) = 2
    /\ Exited = {0, 1}
    /\ entries_queue = <<>>

(* ------------------------------- C25 ----------------------------------- *)

\* C25: when the engine is about to put its first sentinel, and from then
\* on, the work queue holds no work item and no worker is in the middle of
\* an entry; on the work queue no work item ever stands behind a sentinel.
C25_NothingBehindSentinel ==
    /\ (epc = "sentinels" \/ SentinelsQueued + Cardinality(Exited) > 0)
          => Pending = 0
    /\ \A i, j \in 1..Len(entries_queue) :
          (i < j /\ IsNone(entries_queue[i])) => IsNone(entries_queue[j])

\* The engine is about to put the first sentinel of a run in which an entry
\* was redirected: the queue is empty and both workers wait.
C25_Witness ==
    /\ epc = "sentinels"
    /\ loop_idx = 0
    /\ threads_count = 2
    /\ entries_queue = <<>>
    /\ \A w \in Threads : th[w].pc = "wait"
    /\ \E i \in 1..Len(yielded) : yielded[i][2].entry.url \in Locations

(* ------------------------------- C26 ----------------------------------- *)

\* The workers that have dst open for writing.
Writers(dst) ==
    {w \in Threads : th[w].pc = "reading" /\ th[w].raw_entry.entry.dst = dst}

\* C26: a worker that takes an item takes the first one of the work queue,
\* which leaves the queue, and no other worker moves in that step; the
\* items queued or in a worker's hands plus the results never outnumber the
\* input entries, so no item is in two workers' hands; and a dst that only
\* one input entry has is open for writing in at most one worker.
C26_ExclusiveLending ==
    /\ [][\A w \in Threads :
             (th[w].pc = "wait" /\ th'[w].pc = "loop") =>
                 /\ th'[w].raw_entry = Head(entries_queue)
                 /\ entries_queue' = Tail(entries_queue)
                 /\ \A v \in Threads \ {w} : th'[v] = th[v]]_vars
    /\ []((epc \in {"recv", "sentinels", "after", "done"})
             => Pending + Len(AllResults) <= Len(input))
    /\ [](\A dst \in Dsts : UniqueDst(dst) => Cardinality(Writers(dst)) <= 1)

\* Two workers write at the same time, one of them the entry another
\* worker's redirect put back on the queue.
C26_Witness ==
    /\ Cardinality(Writers("d1")) = 1
    /\ Cardinality(Writers("d2")) = 1
    /\ UniqueDst("d1")
    /\ UniqueDst("d2")
    /\ \E w \in Threads :
          th[w].pc = "reading" /\ th[w].raw_entry.entry.url \in Locations

(* ------------------------------- C27 ----------------------------------- *)

\* Every principal (other, group, user) that may read may execute.
ReadersExecute(m) ==
    \A k \in {0, 3, 6} : Bit(m, k + 2) = 1 => Bit(m, k) = 1

\* The mode differs from `before` in execute bits only.
OnlyExecuteAdded(m, before) ==
    \A k \in 0..8 : k \notin {0, 3, 6} => Bit(m, k) = Bit(before, k)

\* C27: when the run has ended, for every input entry with executable =
\* true that yielded Progress, directly or through redirects, and is alone
\* on its dst, the file at dst has the execute bit for every principal that
\* has the read bit, and no other bit differs from the mode the file had
\* when it was opened (that of the old file, or of a new file).
C27_ExecutableBit ==
    RunEnded =>
        \A i \in 1..Len(yielded) :
            yielded[i][2].type = "progress" =>
                \A e \in InputsOf(i) :
                    (e.executable /\ UniqueDst(e.dst)) =>
                        /\ ReadersExecute(st_mode[e.dst])
                        /\ \/ OnlyExecuteAdded(st_mode[e.dst], OldFileMode)
                           \/ OnlyExecuteAdded(st_mode[e.dst], NewFileMode)

(* ------------- one worker on a clock that sees time pass --------------- *)

\* The speed above which the clock is no longer looked at.
MaxSpeed == 3

\* The worker, with every outcome of a request but a fault in a body.
SpeedStep(w) ==
    /\ w \in Threads
    /\ \/ Take(w)
       \/ GiveUp(w)
       \/ AttemptException(w)
       \/ AttemptOtherStatus(w)
       \/ \E location \in GoodLocations, will_close \in ClosingServer :
             AttemptRedirect(w, location, will_close)
       \/ AttemptOk(w)
       \/ \E body \in Bodies, elapsed \in ElapsedTimes :
             /\ elapsed = 0 \/ speed[w] < MaxSpeed
             /\ ReadBody(w, body, elapsed)

\* download(1) called on a list of up to MaxEntries entries.
SpeedNext ==
    \/ \E entry \in InputEntries, verify \in BOOLEAN : Add(entry, verify)
    \/ Clear
    \/ Download(1)
    \/ EngineStep
    \/ SpeedStep(0)

SpeedSpec == Init /\ [][SpeedNext]_vars

(* ------------------------------- C28 ----------------------------------- *)

\* Worker w is alive before and after the step.
StaysAlive(w) == th'[w].pc \notin {"exited", "crashed", "assert"}

\* C28 as stated: a worker's speed is modified only by an attempt that
\* passes validation, before the Progress is put.
C28_SpeedOnlyOnSuccess ==
    [][\A w \in Threads :
          (StaysAlive(w) /\ speed'[w] # speed[w]) =>
              (EmitsProgress(w)
               /\ result_queue'[Len(result_queue')].speed = speed'[w])]_vars

\* C28: a worker's speed is modified only by an attempt whose 200 body was
\* read to its end, whether the body then passes validation or fails it
\* with InvalidSize or InvalidSha1; a Progress carries the speed as
\* modified by its own attempt; attempts that end in ConnectionError or
\* NotFound, redirects, and taking the next entry leave the speed unchanged.
C28_SpeedFrame ==
    [][\A w \in Threads :
          /\ (StaysAlive(w) /\ speed'[w] # speed[w]) =>
                /\ th[w].pc = "reading"
                /\ th'[w].pc \in {"wait", "loop"}
                /\ EmitsProgress(w)
                   \/ th'[w].last_error \in {INVALID_SIZE, INVALID_SHA1}
          /\ EmitsProgress(w) =>
                result_queue'[Len(result_queue')].speed = speed'[w]]_vars

\* The worker starts its second entry with the speed its first Progress
\* carried.
C28_Witness ==
    /\ 0 \in Threads
    /\ speed[0] > 0
    /\ th[0].pc = "loop"
    /\ th[0].gets = 0
    /\ Len(AllResults) = 1
    /\ AllResults[1].type = "progress"
    /\ AllResults[1].speed = speed[0]

(* --------------- a list run again after a successful run --------------- *)

\* The count above which the caller stops reusing the list.
MaxChainCount == 2

\* execute has returned without raising and the caller goes on with the
\* same list: the queues, threads and locals of the run are gone.
Chain ==
    /\ epc = "done"
    /\ outcome = "complete"
    /\ dl.count <= MaxChainCount
    /\ epc' = "build"
    /\ mode' = "none"
    /\ threads_count' = 0
    /\ entries_count' = 0
    /\ result_count' = 0
    /\ loop_idx' = 0
    /\ entries_queue' = <<>>
    /\ result_queue' = <<>>
    /\ th' = <<>>
    /\ conn_cache' = <<>>
    /\ unread' = <<>>
    /\ speed' = <<>>
    /\ yielded' = <<>>
    /\ errors' = <<>>
    /\ events' = <<>>
    /\ outcome' = "none"
    /\ input' = <<>>
    /\ caller' = NoCall
    /\ UNCHANGED <<dl, fs, diskMeta>>

\* A worker whose every request is answered with 200 and a body.
ServedStep(w) ==
    /\ w \in Threads
    /\ \/ Take(w)
       \/ AttemptOk(w)
       \/ GiveUp(w)
       \/ \E body \in Bodies, elapsed \in CoarseClock :
             ReadBody(w, body, elapsed)

ChainNext ==
    \/ \E entry \in InputEntries, verify \in BOOLEAN : Add(entry, verify)
    \/ Clear
    \/ \E cpu \in CpuCounts : Execute(cpu)
    \/ EngineStep
    \/ \E w \in ThreadIds : ServedStep(w)
    \/ Chain

ChainSpec == Init /\ [][ChainNext]_vars

(* ------------------------------- C29 ----------------------------------- *)

\* C29: in every run of execute, a run that follows a successful run on
\* the same list included, StartEvent.entries_count is the number of
\* entries dispatched in this run and StartEvent.size is the sum of the
\* declared sizes of those entries.
C29_StartEventAccurate ==
    (mode = "task" /\ events # <<>>) =>
        /\ events[1].type = "start"
        /\ events[1].entries_count = Len(input)
        /\ events[1].size = SumDeclared(input)

(* ------------------------------- C30 ----------------------------------- *)

\* What the file system holds: contents, modes, directories.
Disk == <<fs, st_mode, parents>>

\* C30: dst, its mode and its parent directory change only in a step in
\* which a worker gets a 200 or streams its body: the attempts that end in
\* a request exception or in a status outside {200, 301, 302}, the Failure
\* that follows them and the taking of the next entry leave the file
\* system as it is.
C30_NoBodyNoWrite ==
    [][Disk' # Disk =>
          \E w \in Threads : th[w].pc = "reading" \/ th'[w].pc = "reading"]_vars

\* A run ended with ConnectionError for the entry of d1 and NotFound for
\* the entry of d2: d1 is still absent, without a parent directory, and d2
\* still holds the old file with its mode.
C30_Witness ==
    /\ RunEnded
    /\ Len(yielded) = 2
    /\ \E i, j \in 1..2 :
          /\ yielded[i][2].type = "error"
          /\ yielded[i][2].code = CONNECTION
          /\ yielded[i][2].entry.dst = "d1"
          /\ yielded[j][2].type = "error"
          /\ yielded[j][2].code = NOT_FOUND
          /\ yielded[j][2].entry.dst = "d2"
    /\ fs = InitialFiles
    /\ fs["d1"] = Absent
    /\ "d1" \notin parents
    /\ fs["d2"] = OldFile
    /\ st_mode["d2"] = OldFileMode

(* ------------------------------- C31 ----------------------------------- *)

\* The place, among the results of both kinds received so far, of the j-th
\* Progress.
ArrivalOf(j) ==
    CHOOSE i \in 1..Len(yielded) :
        /\ IsProgressPair(yielded[i])
        /\ Len(SelectSeq(SubSeq(yielded, 1, i), IsProgressPair)) = j

\* The Failures received before the i-th result.
FailuresBefore(i) ==
    Len(SelectSeq(SubSeq(YieldedResults, 1, i), IsError))

\* C31: the count of the j-th ProgressEvent is the number of results of
\* both kinds received when its Progress arrived, that is j plus the
\* Failures received before it, and never exceeds the entry count.
C31_CountsAllResults ==
    mode = "task" =>
        \A j \in 1..Len(ProgressEvents) :
            /\ ProgressEvents[j].count = ArrivalOf(j)
            /\ ProgressEvents[j].count = j + FailuresBefore(ArrivalOf(j))
            /\ ProgressEvents[j].count <= Len(input)

\* A Failure arrived first: the only ProgressEvent carries count 2, so the
\* value 1 is skipped and the last count exceeds the number of
\* ProgressEvents.
C31_Witness ==
    /\ mode = "task"
    /\ Len(input) = 2
    /\ Len(errors) = 1
    /\ Len(ProgressEvents) = 1
    /\ ProgressEvents[1].count = 2
    /\ ProgressEvents[1].count > Len(ProgressEvents)

(* ------------- the caller drops the sequence before its end ------------ *)

\* A generator closed the way one with `try: ... finally:` around the
\* sentinel loop would be: the workers are dismissed.
AbandonedQueueDismisses(queue, tc) == queue \o [i \in 1..tc |-> None]

\* The work queue once the generator is closed at its `yield`: the
\* sentinel loop that follows the while loop is never reached.
AbandonedQueue(queue, tc) == queue

\* The caller stops consuming: it drops the generator suspended at the
\* `yield`, or an exception leaves the loop of execute (raised by the
\* watcher); GeneratorExit ends download at the `yield`.
Abandon ==
    /\ yielded # <<>>
    /\ epc = "recv" \/ (epc = "sentinels" /\ loop_idx = 0)
    /\ epc' = "abandoned"
    /\ outcome' = "abandoned"
    /\ entries_queue' = AbandonedQueue(entries_queue, threads_count)
    /\ UNCHANGED <<dl, fs, diskMeta, threadLocals, mode, threads_count,
                   entries_count, result_count, loop_idx, result_queue, th,
                   yielded, errors, events, input, caller>>

\* A worker whose attempts end in a request exception, a status other than
\* 200/301/302 (drained, or with a fault while draining), or a 200 whose
\* body is read to its end or faults.
AbandonedStep(w) ==
    /\ w \in Threads
    /\ \/ WorkerStep(w)
       \/ DrainFault(w)
       \/ ReadFault(w)

AbandonNext ==
    \/ \E entry \in InputEntries, verify \in BOOLEAN : Add(entry, verify)
    \/ Clear
    \/ \E cpu \in CpuCounts : Execute(cpu)
    \/ \E tc \in 0..MaxThreads : Download(tc)
    \/ EngineStep
    \/ Abandon
    \/ \E w \in ThreadIds : AbandonedStep(w)

\* Every thread that can run eventually does.
AbandonSpec ==
    /\ Init
    /\ [][AbandonNext]_vars
    /\ WF_vars(EngineStep)
    /\ \A w \in ThreadIds : WF_vars(AbandonedStep(w))

(* ------------------------------- C32 ----------------------------------- *)

Abandoned == epc = "abandoned"

\* The workers an exception has ended.
Crashed == {w \in Threads : th[w].pc \in {"crashed", "assert"}}

\* Every worker waits on the empty work queue.
AllBlocked ==
    /\ entries_queue = <<>>
    /\ \A w \in Threads : th[w].pc = "wait"

\* Every worker left waits on the work queue, which is empty unless no
\* worker is left.
Settled ==
    /\ \A w \in Threads \ Crashed : th[w].pc = "wait"
    /\ entries_queue = <<>> \/ Crashed = Threads

====
